---- MODULE Spec2Model ----
(***************************************************************************)
(* A model of the two reporting scripts of ECS-Summary-Project:            *)
(*   cce_cluster_summary.py    get_cce_summary  (the cluster flow)         *)
(*   ecs_instance_reporter.py  main             (the instance flow)        *)
(* A run is one execution of one script against an environment, a cloud   *)
(* API and a disk.  The API's replies and the disk's failures are inputs,  *)
(* drawn with \E where the script makes the call.                          *)
(***************************************************************************)
EXTENDS Integers, Sequences, FiniteSets, TLC

VARIABLES
    flow,           \* which script runs: "cce" or "ecs"
    pc,             \* the position of the run in the script
    env,            \* os.environ restricted to the four HUAWEI_* variables
    disk,           \* the output file of the run
    calls,          \* the network calls issued so far, in order
    out,            \* the terminal messages logged / printed so far
    exc,            \* the exception propagating to the outer try, if any
    items,          \* clusters_response.items
    i,              \* index of the next element of the for loop
    responses,      \* the show_cluster replies received so far
    cce_data,       \* the list built by get_cce_summary
    cce_data_json,  \* json.dumps(cce_data, indent=4)
    flavor_dict,    \* the lookup table built by get_flavor_dict
    servers,        \* server_response.servers
    ecs_data,       \* the list built by get_ecs_servers
    ip,             \* the argument of is_private_ip (classification runs)
    ip_type         \* the classification of ip

vars == <<flow, pc, env, disk, calls, out, exc, items, i, responses, cce_data,
          cce_data_json, flavor_dict, servers, ecs_data, ip, ip_type>>

(***************************************************************************)
(* Bounds of the model.                                                    *)
(***************************************************************************)
MaxClusters == 2
MaxFlavors == 2
MaxServers == 2

(***************************************************************************)
(* Python values.  None in a slot that otherwise holds a str is the token  *)
(* None; None in a slot that otherwise holds an object is NoneObject.      *)
(* An object is the record of its attributes.                              *)
(***************************************************************************)
None == "None"
NoneObject == [class |-> "NoneType"]

bool(v) == v # None /\ v # ""

getattr(o, name, default) == IF name \in DOMAIN o THEN o[name] ELSE default

hasattr(o, name) == name \in DOMAIN o

NoExc == [type |-> "", msg |-> ""]

Raise(type, msg) == [type |-> type, msg |-> msg]

(***************************************************************************)
(* json: None becomes null, a str stays a str, an object that is not a     *)
(* str, number, list or dict cannot be serialized.                         *)
(***************************************************************************)
JsonNull == "null"
NotSerializable == "<object>"

JsonScalar(v) == IF v = None THEN JsonNull ELSE v

JsonDict(d) == [k \in DOMAIN d |-> JsonScalar(d[k])]

DictSerializable(d) == \A k \in DOMAIN d : d[k] # NotSerializable

(***************************************************************************)
(* The environment.                                                        *)
(***************************************************************************)
EnvNames == {"HUAWEI_ACCESS_KEY", "HUAWEI_SECRET_KEY", "HUAWEI_PROJECT_ID", "HUAWEI_REGION"}

KnownRegion == "ap-southeast-3"

EnvValues(name) ==
    {None, ""} \cup
    (CASE name = "HUAWEI_ACCESS_KEY" -> {"AK1"}
       [] name = "HUAWEI_SECRET_KEY" -> {"SK1"}
       [] name = "HUAWEI_PROJECT_ID" -> {"p1"}
       [] name = "HUAWEI_REGION" -> {KnownRegion, "nowhere"})

Environments == {e \in [EnvNames -> UNION {EnvValues(n) : n \in EnvNames}] :
                    \A n \in EnvNames : e[n] \in EnvValues(n)}

\* a test that passes as soon as one value is set
allAny(xs) == \E k \in DOMAIN xs : bool(xs[k])

\* all([...]): every value is truthy
all(xs) == \A k \in DOMAIN xs : bool(xs[k])

\* the four os.environ.get calls and the "if not all([...])" test
EnvironmentSet(e) ==
    all(<<e["HUAWEI_ACCESS_KEY"], e["HUAWEI_SECRET_KEY"],
          e["HUAWEI_PROJECT_ID"], e["HUAWEI_REGION"]>>)

\* CceRegion.value_of / EcsRegion.value_of: an unknown region id is a KeyError
RegionValueOf(region) == region = KnownRegion

(***************************************************************************)
(* The disk.  The file is absent, left by an earlier run ("old"), written  *)
(* completely by this run ("written"), or opened for writing by this run   *)
(* and left with a part of the text ("partial").                           *)
(***************************************************************************)
NoFile == [state |-> "absent", data |-> <<>>]
OldFile == [state |-> "old", data |-> <<>>]
Written(data) == [state |-> "written", data |-> data]
Partial(data) == [state |-> "partial", data |-> data]

\* the errors a call to the cloud API can fail with
ApiErrors == {"connection timed out", "403 forbidden"}

Message(kind, label, text) == [kind |-> kind, label |-> label, text |-> text]

\* a network call: the operation, its argument, and the error it failed with ("" if none)
Call(op, arg, error) == [op |-> op, arg |-> arg, error |-> error]

(***************************************************************************)
(* cce_cluster_summary.py                                                  *)
(***************************************************************************)
ClusterUid(k) == "c" \o ToString(k)

RECURSIVE Reverse(_)
Reverse(s) == IF s = <<>> THEN <<>> ELSE Append(Reverse(Tail(s)), Head(s))

\* what list_clusters can return: up to MaxClusters summaries, in either order
ClusterLists ==
    UNION {{[k \in 1..n |-> ClusterUid(k)], Reverse([k \in 1..n |-> ClusterUid(k)])} :
              n \in 0..MaxClusters}

Endpoint(url, type) == [url |-> url, type |-> type]
E1 == Endpoint("https://10.0.0.9:5443", "Internal")
E2 == Endpoint("https://203.0.113.7:5443", "External")

EndpointLists == {<<>>, <<E1>>, <<E1, E2>>, <<E2, E1>>, <<E2, E1, E2>>}

\* spec.host_network: None, an object with no mode attribute, an object whose
\* mode attribute is None, an object with a mode
HostNetworks ==
    {NoneObject,
     [vpc |-> "vpc-1", subnet |-> "subnet-1"],
     [vpc |-> "vpc-1", mode |-> None],
     [vpc |-> "vpc-1", mode |-> "host"]}

ClusterDetail(uid, host_network, container_network, labels, endpoints) ==
    [metadata |-> [name |-> "name-" \o uid, uid |-> uid,
                   creation_timestamp |-> "2024-01-01 00:00:00",
                   labels |-> labels, annotations |-> [owner |-> "ops"]],
     status |-> [phase |-> "Available", endpoints |-> endpoints],
     spec |-> [version |-> "v1.28", type |-> "VirtualMachine",
               flavor |-> "cce.s1.small", host_network |-> host_network,
               container_network |-> container_network,
               authentication |-> [mode |-> "rbac"],
               billing_mode |-> "0"]]

LabelsOk == [env |-> "prod"]
LabelsBad == [env |-> NotSerializable]
ContainerNetworkOk == [mode |-> "overlay_l2"]

\* what show_cluster(uid) can return: every host network, every endpoint list,
\* a detail whose container network is None, a detail with a label that json
\* cannot encode
ClusterDetails(uid) ==
    {ClusterDetail(uid, h, ContainerNetworkOk, LabelsOk, <<E1, E2>>) : h \in HostNetworks}
    \cup {ClusterDetail(uid, NoneObject, ContainerNetworkOk, LabelsOk, eps) :
             eps \in EndpointLists}
    \cup {ClusterDetail(uid, [vpc |-> "vpc-1", mode |-> "host"], ContainerNetworkOk, LabelsOk,
                        <<E2, E1, E2>>),
          ClusterDetail(uid, NoneObject, NoneObject, LabelsOk, <<E1>>),
          ClusterDetail(uid, NoneObject, ContainerNetworkOk, LabelsBad, <<E1>>)}

\* a serialization that walks the list from its end
serialize_endpointsReversed(endpoints) ==
    [k \in 1..Len(endpoints) |->
        [url |-> endpoints[Len(endpoints) + 1 - k].url,
         type |-> endpoints[Len(endpoints) + 1 - k].type]]

\* line 21
serialize_endpoints(endpoints) ==
    [k \in 1..Len(endpoints) |-> [url |-> endpoints[k].url, type |-> endpoints[k].type]]

\* the attribute reads of the dict literal that fail: x.mode on None
cluster_info_raises(cluster_detail) ==
    \/ ~hasattr(cluster_detail.spec.container_network, "mode")
    \/ ~hasattr(cluster_detail.spec.authentication, "mode")

\* the dict literal cluster_info = {...}
cluster_info(cluster_detail, region) ==
    "Cluster Name" :> cluster_detail.metadata.name
    @@ "Cluster ID" :> cluster_detail.metadata.uid
    @@ "Status" :> cluster_detail.status.phase
    @@ "Created" :> cluster_detail.metadata.creation_timestamp
    @@ "Version" :> cluster_detail.spec.version
    @@ "Cluster Type" :> cluster_detail.spec.type
    @@ "Flavor" :> cluster_detail.spec.flavor
    @@ "Region" :> region
    @@ "Network Mode" :> getattr(cluster_detail.spec.host_network, "mode", "N/A")
    @@ "Container Network" :> cluster_detail.spec.container_network.mode
    @@ "Authentication" :> cluster_detail.spec.authentication.mode
    @@ "Billing Mode" :> cluster_detail.spec.billing_mode
    @@ "Labels" :> cluster_detail.metadata.labels
    @@ "Annotations" :> cluster_detail.metadata.annotations
    @@ "Endpoints" :> serialize_endpoints(cluster_detail.status.endpoints)

ScalarKeys == {"Cluster Name", "Cluster ID", "Status", "Created", "Version", "Cluster Type",
               "Flavor", "Region", "Network Mode", "Container Network", "Authentication",
               "Billing Mode"}

ClusterInfoSerializable(info) ==
    DictSerializable(info["Labels"]) /\ DictSerializable(info["Annotations"])

\* json.dumps of one cluster_info
ClusterInfoJson(info) ==
    [k \in DOMAIN info |->
        IF k \in ScalarKeys THEN JsonScalar(info[k])
        ELSE IF k \in {"Labels", "Annotations"} THEN JsonDict(info[k])
        ELSE info[k]]

\* json.dumps(cce_data, indent=4): the array of the records, in list order
dumps(data) == [k \in 1..Len(data) |-> ClusterInfoJson(data[k])]

dumps_raises(data) == \E k \in 1..Len(data) : ~ClusterInfoSerializable(data[k])

CCE_FILE == "cce_clusters_detailed_info.json"

\* lines 33-40: read the environment, raise ValueError if a value is missing
CceCheckEnv ==
    /\ flow = "cce" /\ pc = "start"
    /\ IF EnvironmentSet(env)
       THEN pc' = "build" /\ exc' = exc
       ELSE /\ pc' = "except"
            /\ exc' = Raise("ValueError", "One or more environment variables are not set.")
    /\ UNCHANGED <<flow, env, disk, calls, out, items, i, responses, cce_data,
                   cce_data_json, flavor_dict, servers, ecs_data, ip, ip_type>>

\* lines 43-49: credentials and client; CceRegion.value_of may raise
CceBuildClient ==
    /\ flow = "cce" /\ pc = "build"
    /\ IF RegionValueOf(env["HUAWEI_REGION"])
       THEN pc' = "list" /\ exc' = exc
       ELSE pc' = "except" /\ exc' = Raise("KeyError", "Unexpected region_id")
    /\ UNCHANGED <<flow, env, disk, calls, out, items, i, responses, cce_data,
                   cce_data_json, flavor_dict, servers, ecs_data, ip, ip_type>>

\* lines 52-58: list_clusters, then cce_data = []
CceListClusters ==
    /\ flow = "cce" /\ pc = "list"
    /\ \/ \E cause \in ApiErrors :
             /\ calls' = Append(calls, Call("list_clusters", "", cause))
             /\ pc' = "except"
             /\ exc' = Raise("ClientRequestException", cause)
             /\ UNCHANGED <<items, i, cce_data>>
       \/ \E cs \in ClusterLists :
             /\ calls' = Append(calls, Call("list_clusters", "", ""))
             /\ items' = cs
             /\ i' = 1
             /\ cce_data' = <<>>
             /\ pc' = "loop"
             /\ exc' = exc
    /\ UNCHANGED <<flow, env, disk, out, responses, cce_data_json, flavor_dict,
                   servers, ecs_data, ip, ip_type>>

\* lines 59-88: one iteration of the for loop
CceShowCluster ==
    /\ flow = "cce" /\ pc = "loop" /\ i <= Len(items)
    /\ \/ \E cause \in ApiErrors :
             /\ calls' = Append(calls, Call("show_cluster", items[i], cause))
             /\ pc' = "except"
             /\ exc' = Raise("ClientRequestException", cause)
             /\ UNCHANGED <<i, responses, cce_data>>
       \/ \E cluster_detail \in ClusterDetails(items[i]) :
             /\ calls' = Append(calls, Call("show_cluster", items[i], ""))
             /\ responses' = Append(responses, cluster_detail)
             /\ IF cluster_info_raises(cluster_detail)
                THEN /\ pc' = "except"
                     /\ exc' = Raise("AttributeError",
                                     "'NoneType' object has no attribute 'mode'")
                     /\ UNCHANGED <<i, cce_data>>
                ELSE /\ cce_data' = Append(cce_data,
                                           cluster_info(cluster_detail, env["HUAWEI_REGION"]))
                     /\ i' = i + 1
                     /\ pc' = "loop"
                     /\ exc' = exc
    /\ UNCHANGED <<flow, env, disk, out, items, cce_data_json, flavor_dict,
                   servers, ecs_data, ip, ip_type>>

\* line 91: json.dumps, once the loop is exhausted
CceDumps ==
    /\ flow = "cce" /\ pc = "loop" /\ i > Len(items)
    /\ IF dumps_raises(cce_data)
       THEN /\ pc' = "except"
            /\ exc' = Raise("TypeError", "Object of type object is not JSON serializable")
            /\ UNCHANGED cce_data_json
       ELSE /\ cce_data_json' = dumps(cce_data)
            /\ pc' = "write"
            /\ exc' = exc
    /\ UNCHANGED <<flow, env, disk, calls, out, items, i, responses, cce_data,
                   flavor_dict, servers, ecs_data, ip, ip_type>>

\* lines 94-95: open(..., 'w') and write; either may fail with OSError
CceWriteFile ==
    /\ flow = "cce" /\ pc = "write"
    /\ \/ /\ pc' = "except"
          /\ exc' = Raise("OSError", "cannot open " \o CCE_FILE)
          /\ UNCHANGED disk
       \/ /\ pc' = "except"
          /\ exc' = Raise("OSError", "write failed")
          /\ disk' = Partial(<<>>)
       \/ /\ pc' = "log"
          /\ exc' = exc
          /\ disk' = Written(cce_data_json)
    /\ UNCHANGED <<flow, env, calls, out, items, i, responses, cce_data,
                   cce_data_json, flavor_dict, servers, ecs_data, ip, ip_type>>

\* line 97: logging.info
CceLogSuccess ==
    /\ flow = "cce" /\ pc = "log"
    /\ out' = Append(out, Message("success", "INFO",
                                  "CCE cluster summary has been saved to '" \o CCE_FILE \o "'."))
    /\ pc' = "done"
    /\ UNCHANGED <<flow, env, disk, calls, exc, items, i, responses, cce_data,
                   cce_data_json, flavor_dict, servers, ecs_data, ip, ip_type>>

\* a handler that saves what was collected before it logs the error
CceExceptSavesPartial ==
    /\ flow = "cce" /\ pc = "except"
    /\ out' = Append(out, Message("error", exc.type, exc.msg))
    /\ disk' = Written(dumps(cce_data))
    /\ exc' = NoExc
    /\ pc' = "done"
    /\ UNCHANGED <<flow, env, calls, items, i, responses, cce_data,
                   cce_data_json, flavor_dict, servers, ecs_data, ip, ip_type>>

\* lines 99-102: the two except clauses
CceExcept ==
    /\ flow = "cce" /\ pc = "except"
    /\ out' = Append(out,
                     IF exc.type = "ValueError"
                     THEN Message("error", "ValueError", exc.msg)
                     ELSE Message("error",
                                  "An error occurred while fetching the CCE cluster summary",
                                  exc.msg))
    /\ exc' = NoExc
    /\ pc' = "done"
    /\ UNCHANGED <<flow, env, disk, calls, items, i, responses, cce_data,
                   cce_data_json, flavor_dict, servers, ecs_data, ip, ip_type>>

(***************************************************************************)
(* Text that is parsed is a sequence of one-character strings.             *)
(***************************************************************************)
DecDigits == <<"0", "1", "2", "3", "4", "5", "6", "7", "8", "9">>
HexLower == DecDigits \o <<"a", "b", "c", "d", "e", "f">>
HexUpper == DecDigits \o <<"A", "B", "C", "D", "E", "F">>

Range(s) == {s[k] : k \in DOMAIN s}

isdigit(c) == c \in Range(DecDigits)

\* the value of a hexadecimal digit (of a decimal digit too)
DigitValue(c) ==
    IF c \in Range(HexLower)
    THEN (CHOOSE k \in DOMAIN HexLower : HexLower[k] = c) - 1
    ELSE (CHOOSE k \in DOMAIN HexUpper : HexUpper[k] = c) - 1

\* int(s, base) of a non-empty string of digits of the base
RECURSIVE int(_, _)
int(s, base) ==
    IF Len(s) = 0 THEN 0
    ELSE int(SubSeq(s, 1, Len(s) - 1), base) * base + DigitValue(s[Len(s)])

\* str(n) and '%x' % n of a natural number
RECURSIVE Format(_, _)
Format(n, base) ==
    IF n < base THEN <<HexLower[n + 1]>>
    ELSE Append(Format(n \div base, base), HexLower[(n % base) + 1])

\* s.split(sep)
RECURSIVE split(_, _)
split(s, sep) ==
    IF \E k \in DOMAIN s : s[k] = sep
    THEN LET k == CHOOSE k \in DOMAIN s : s[k] = sep /\ \A j \in 1..(k - 1) : s[j] # sep
         IN <<SubSeq(s, 1, k - 1)>> \o split(SubSeq(s, k + 1, Len(s)), sep)
    ELSE <<s>>

\* the text before the first sep, and the text after it (s.partition(sep))
Before(s, sep) == split(s, sep)[1]
After(s, sep) == SubSeq(s, Len(Before(s, sep)) + 2, Len(s))

(***************************************************************************)
(* ipaddress.ip_address and is_private, as is_private_ip uses them.  An    *)
(* address is its version and its words: 4 octets or 8 hextets.  A parse   *)
(* that raises yields Invalid.                                             *)
(***************************************************************************)
Invalid == [version |-> 0, words |-> <<>>]

\* _BaseV4._parse_octet; -1 stands for ValueError
parse_octet(octet_str) ==
    IF Len(octet_str) = 0 THEN -1
    ELSE IF \E k \in DOMAIN octet_str : ~isdigit(octet_str[k]) THEN -1
    ELSE IF Len(octet_str) > 3 THEN -1
    ELSE IF octet_str # <<"0">> /\ octet_str[1] = "0" THEN -1
    ELSE IF int(octet_str, 10) > 255 THEN -1
    ELSE int(octet_str, 10)

\* IPv4Address(addr_str)
IPv4Address(addr_str) ==
    IF "/" \in Range(addr_str) \/ Len(addr_str) = 0 THEN Invalid
    ELSE LET octets == split(addr_str, ".")
         IN IF Len(octets) # 4 THEN Invalid
            ELSE IF \E k \in 1..4 : parse_octet(octets[k]) = -1 THEN Invalid
            ELSE [version |-> 4, words |-> [k \in 1..4 |-> parse_octet(octets[k])]]

\* _BaseV6._parse_hextet; -1 stands for ValueError
parse_hextet(hextet_str) ==
    IF \E k \in DOMAIN hextet_str : hextet_str[k] \notin Range(HexLower) \cup Range(HexUpper)
    THEN -1
    ELSE IF Len(hextet_str) > 4 \/ Len(hextet_str) = 0 THEN -1
    ELSE int(hextet_str, 16)

\* the parts of an IPv6 string once an IPv4-style suffix is rewritten as two
\* hextets; <<>> stands for AddressValueError
IPv6Parts(ip_str) ==
    LET parts == split(ip_str, ":")
        last == parts[Len(parts)]
    IN IF Len(parts) < 3 THEN <<>>
       ELSE IF "." \in Range(last)
       THEN LET v4 == IPv4Address(last)
            IN IF v4 = Invalid THEN <<>>
               ELSE SubSeq(parts, 1, Len(parts) - 1)
                    \o <<Format(v4.words[1] * 256 + v4.words[2], 16),
                         Format(v4.words[3] * 256 + v4.words[4], 16)>>
       ELSE parts

\* _BaseV6._ip_int_from_string
ip_int_from_string(ip_str) ==
    LET parts == IPv6Parts(ip_str)
        n == Len(parts)
        skips == {k \in 2..(n - 1) : parts[k] = <<>>}
    IN IF Len(ip_str) = 0 \/ n = 0 \/ n > 9 \/ Cardinality(skips) > 1 THEN Invalid
       ELSE IF skips # {}
       THEN LET skip_index == (CHOOSE k \in skips : TRUE) - 1
                hi0 == skip_index
                lo0 == n - skip_index - 1
                parts_hi == IF parts[1] = <<>> THEN hi0 - 1 ELSE hi0
                parts_lo == IF parts[n] = <<>> THEN lo0 - 1 ELSE lo0
                parts_skipped == 8 - (parts_hi + parts_lo)
                word(k) == IF k <= parts_hi THEN parse_hextet(parts[k])
                           ELSE IF k <= parts_hi + parts_skipped THEN 0
                           ELSE parse_hextet(parts[n - 8 + k])
            IN IF (parts[1] = <<>> /\ parts_hi # 0) \/ (parts[n] = <<>> /\ parts_lo # 0)
               THEN Invalid
               ELSE IF parts_skipped < 1 THEN Invalid
               ELSE IF \E k \in 1..8 : word(k) = -1 THEN Invalid
               ELSE [version |-> 6, words |-> [k \in 1..8 |-> word(k)]]
       ELSE IF n # 8 \/ parts[1] = <<>> \/ parts[n] = <<>> THEN Invalid
       ELSE IF \E k \in 1..8 : parse_hextet(parts[k]) = -1 THEN Invalid
       ELSE [version |-> 6, words |-> [k \in 1..8 |-> parse_hextet(parts[k])]]

\* IPv6Address(addr_str), with _split_scope_id
IPv6Address(addr_str) ==
    IF "/" \in Range(addr_str) THEN Invalid
    ELSE IF "%" \in Range(addr_str)
            /\ (Len(After(addr_str, "%")) = 0 \/ "%" \in Range(After(addr_str, "%")))
    THEN Invalid
    ELSE ip_int_from_string(Before(addr_str, "%"))

\* ipaddress.ip_address: IPv4 first, then IPv6, else ValueError
ip_address(address) ==
    IF IPv4Address(address) # Invalid THEN IPv4Address(address)
    ELSE IPv6Address(address)

Network(words, prefixlen) == [words |-> words, prefixlen |-> prefixlen]

RECURSIVE Pow2(_)
Pow2(n) == IF n = 0 THEN 1 ELSE 2 * Pow2(n - 1)

\* a membership test that compares whole words and ignores the prefix length
InNetworkWholeWords(words, net, w) ==
    \A k \in DOMAIN words :
        net.prefixlen > (k - 1) * w => words[k] = net.words[k]

\* "address in network": the first prefixlen bits agree; w is the width of a word
InNetwork(words, net, w) ==
    \A k \in DOMAIN words :
        LET before == (k - 1) * w
            covered == IF net.prefixlen <= before THEN 0
                       ELSE IF net.prefixlen >= before + w THEN w
                       ELSE net.prefixlen - before
        IN words[k] \div Pow2(w - covered) = net.words[k] \div Pow2(w - covered)

\* _IPv4Constants._private_networks
IPv4PrivateNetworks ==
    {Network(<<0, 0, 0, 0>>, 8), Network(<<10, 0, 0, 0>>, 8), Network(<<127, 0, 0, 0>>, 8),
     Network(<<169, 254, 0, 0>>, 16), Network(<<172, 16, 0, 0>>, 12),
     Network(<<192, 0, 0, 0>>, 29), Network(<<192, 0, 0, 170>>, 31),
     Network(<<192, 0, 2, 0>>, 24), Network(<<192, 168, 0, 0>>, 16),
     Network(<<198, 18, 0, 0>>, 15), Network(<<198, 51, 100, 0>>, 24),
     Network(<<203, 0, 113, 0>>, 24), Network(<<240, 0, 0, 0>>, 4),
     Network(<<255, 255, 255, 255>>, 32)}

\* _IPv6Constants._private_networks
IPv6PrivateNetworks ==
    {Network(<<0, 0, 0, 0, 0, 0, 0, 1>>, 128), Network(<<0, 0, 0, 0, 0, 0, 0, 0>>, 128),
     Network(<<0, 0, 0, 0, 0, 65535, 0, 0>>, 96), Network(<<256, 0, 0, 0, 0, 0, 0, 0>>, 64),
     Network(<<8193, 0, 0, 0, 0, 0, 0, 0>>, 23), Network(<<8193, 2, 0, 0, 0, 0, 0, 0>>, 48),
     Network(<<8193, 3512, 0, 0, 0, 0, 0, 0>>, 32), Network(<<8193, 16, 0, 0, 0, 0, 0, 0>>, 28),
     Network(<<64512, 0, 0, 0, 0, 0, 0, 0>>, 7), Network(<<65152, 0, 0, 0, 0, 0, 0, 0>>, 10)}

\* IPv4Address.is_private
IPv4IsPrivate(words) == \E net \in IPv4PrivateNetworks : InNetwork(words, net, 8)

\* IPv6Address.ipv4_mapped is not None
IsIPv4Mapped(words) == (\A k \in 1..5 : words[k] = 0) /\ words[6] = 65535

\* the octets of IPv6Address.ipv4_mapped
IPv4Mapped(words) ==
    <<words[7] \div 256, words[7] % 256, words[8] \div 256, words[8] % 256>>

\* ip_obj.is_private
is_private(ip_obj) ==
    IF ip_obj.version = 4 THEN IPv4IsPrivate(ip_obj.words)
    ELSE IF IsIPv4Mapped(ip_obj.words) THEN IPv4IsPrivate(IPv4Mapped(ip_obj.words))
    ELSE \E net \in IPv6PrivateNetworks : InNetwork(ip_obj.words, net, 16)

\* an is_private_ip whose except clause returns True
is_private_ipInvalidPrivate(address) ==
    IF ip_address(address) = Invalid THEN TRUE
    ELSE is_private(ip_address(address))

\* is_private_ip(ip): the ValueError of ip_address is caught and gives False
is_private_ip(address) ==
    IF ip_address(address) = Invalid THEN FALSE
    ELSE is_private(ip_address(address))

\* 'private' if is_private_ip(addr.addr) else 'public'
IpType(address) == IF is_private_ip(address) THEN "private" ELSE "public"

(***************************************************************************)
(* ecs_instance_reporter.py                                                *)
(***************************************************************************)
Flavor(id, name, vcpus, ram) == [id |-> id, name |-> name, vcpus |-> vcpus, ram |-> ram]
F1 == Flavor("f1", "small", 2, 4096)
F2 == Flavor("f2", "large", 4, 1536)
F1b == Flavor("f1", "tiny", 1, 1000)

RECURSIVE SeqsUpTo(_, _)
SeqsUpTo(S, n) ==
    IF n = 0 THEN {<<>>}
    ELSE SeqsUpTo(S, n - 1) \cup {Append(s, x) : s \in SeqsUpTo(S, n - 1), x \in S}

\* what list_flavors can return
Catalogs == SeqsUpTo({F1, F2, F1b}, MaxFlavors)

\* {flavor.id: flavor for flavor in flavors}: a later entry replaces an earlier one
DictById(flavors) ==
    [id \in {flavors[k].id : k \in DOMAIN flavors} |->
        flavors[CHOOSE k \in DOMAIN flavors :
                    flavors[k].id = id /\ \A j \in DOMAIN flavors : flavors[j].id = id => j <= k]]

Chars10 == <<"1", "0", ".", "0", ".", "0", ".", "5">>
Chars8 == <<"8", ".", "8", ".", "8", ".", "8">>
CharsBad == <<"n", "o", "t", "-", "a", "n", "-", "i", "p">>
Chars256 == <<"2", "5", "6", ".", "1", ".", "1", ".", "1">>

A10 == [addr |-> Chars10, mac_addr |-> "fa:16:3e:00:00:01", version |-> "4"]
A8 == [addr |-> Chars8, version |-> "4"]
ABad == [addr |-> CharsBad]
ABad2 == [addr |-> Chars256, mac_addr |-> "fa:16:3e:00:00:02", version |-> "4"]

Server(flavor_id, addresses, image, metadata) ==
    [name |-> "vm", id |-> "s", status |-> "ACTIVE", flavor |-> [id |-> flavor_id],
     created |-> "2024-01-01T00:00:00Z", updated |-> "2024-01-02T00:00:00Z",
     image |-> image, key_name |-> None, addresses |-> addresses,
     security_groups |-> <<[name |-> "default", id |-> "sg-1"], [name |-> "web", id |-> "sg-2"]>>,
     metadata |-> metadata]

ImageOk == [id |-> "img-1"]
TagsOk == [team |-> "ops"]
TagsBad == [team |-> NotSerializable]

MapOne == <<[net |-> "net-a", addrs |-> <<A10>>]>>
MapInvalidFirst == <<[net |-> "net-a", addrs |-> <<ABad, A10>>]>>
MapTwoNets ==
    <<[net |-> "net-a", addrs |-> <<A8>>], [net |-> "net-b", addrs |-> <<ABad2, A10>>]>>

\* server.addresses: the networks in dict order, each with its address objects
AddressMaps == {<<>>, MapOne, MapInvalidFirst, MapTwoNets}

\* the servers a listing is made of: every flavor reference, every address map,
\* a server without an image, a server with a tag that json cannot encode
ServerShapes ==
    {Server(f, MapOne, ImageOk, TagsOk) : f \in {"f1", "f2", "unknown"}}
    \cup {Server("f1", a, ImageOk, TagsOk) : a \in AddressMaps}
    \cup {Server("unknown", MapInvalidFirst, ImageOk, TagsOk),
          Server("f1", <<>>, NoneObject, TagsOk),
          Server("f2", <<>>, ImageOk, TagsBad)}

\* what list_servers_details can return: the k-th server is named after k
ServerLists ==
    {[k \in DOMAIN s |-> [s[k] EXCEPT !.id = "s" \o ToString(k), !.name = "vm" \o ToString(k)]] :
        s \in SeqsUpTo(ServerShapes, MaxServers)}

\* repr(ram / 1024): the quotient, a point, and the decimal digits of the rest
RECURSIVE FractionDigits(_)
FractionDigits(r) ==
    IF r = 0 THEN "" ELSE ToString((r * 10) \div 1024) \o FractionDigits((r * 10) % 1024)

\* the quotient of an integer division
GiBFloor(ram) == ToString(ram \div 1024)

\* f"{flavor.ram / 1024}"
GiB(ram) ==
    ToString(ram \div 1024) \o "."
    \o (IF ram % 1024 = 0 THEN "0" ELSE FractionDigits(ram % 1024))

\* lines 90-91: flavor_dict.get and the f-string
flavor_spec(flavors, server) ==
    IF server.flavor.id \in DOMAIN flavors
    THEN LET flavor == flavors[server.flavor.id]
         IN flavor.name \o " | " \o ToString(flavor.vcpus) \o " vCPUs | "
            \o GiB(flavor.ram) \o " GiB | " \o flavor.id
    ELSE "Flavor details not available"

\* lines 112-118: one interface_info
interface_info(net_name, addr) ==
    "Network Name" :> net_name
    @@ "Address" :> addr.addr
    @@ "Type" :> IpType(addr.addr)
    @@ "MAC Address" :> getattr(addr, "mac_addr", None)
    @@ "Version" :> getattr(addr, "version", None)

\* lines 107-119: the two nested loops over server.addresses.items()
RECURSIVE network_interfaces(_)
network_interfaces(addresses) ==
    IF addresses = <<>> THEN <<>>
    ELSE [k \in DOMAIN Head(addresses).addrs |->
             interface_info(Head(addresses).net, Head(addresses).addrs[k])]
         \o network_interfaces(Tail(addresses))

\* the attribute read of the loop body that fails: server.image.id on None
ecs_info_raises(server) == ~hasattr(server.image, "id")

EmptyDict == <<>>

\* lines 94-138: the record of one server
ecs_info(server, flavors, region) ==
    "Server Summary" :>
        ("Name" :> server.name
         @@ "ID" :> server.id
         @@ "Status" :> server.status
         @@ "Flavor" :> flavor_spec(flavors, server)
         @@ "Created" :> server.created
         @@ "Updated" :> server.updated
         @@ "Image ID" :> server.image.id
         @@ "Key Name" :> server.key_name
         @@ "Region" :> region)
    @@ "Network Interfaces" :> network_interfaces(server.addresses)
    @@ "Security Groups" :>
        [k \in DOMAIN server.security_groups |-> server.security_groups[k].name]
    @@ "Monitoring" :> EmptyDict
    @@ "Tags" :> server.metadata
    @@ "Cloud Backup" :> EmptyDict
    @@ "Host Security" :> EmptyDict

EcsInfoSerializable(info) == DictSerializable(info["Tags"])

InterfaceJson(info) ==
    [k \in DOMAIN info |-> IF k = "Address" THEN info[k] ELSE JsonScalar(info[k])]

\* the JSON text of one ecs_info
EcsInfoJson(info) ==
    [k \in DOMAIN info |->
        IF k = "Server Summary" THEN JsonDict(info[k])
        ELSE IF k = "Network Interfaces"
        THEN [j \in DOMAIN info[k] |-> InterfaceJson(info[k][j])]
        ELSE IF k = "Tags" THEN JsonDict(info[k])
        ELSE info[k]]

\* the first record json.dump cannot encode, 0 if there is none
FirstBad(data) ==
    IF \E k \in DOMAIN data : ~EcsInfoSerializable(data[k])
    THEN CHOOSE k \in DOMAIN data :
            ~EcsInfoSerializable(data[k]) /\ \A j \in 1..(k - 1) : EcsInfoSerializable(data[j])
    ELSE 0

\* json.dump(ecs_data, json_file, indent=4) writes the text piece by piece: the
\* records before n are in the file when record n fails to encode
Dumped(data, n) == [k \in 1..n |-> EcsInfoJson(data[k])]

RUN_TIME == "20240101_000000"

\* line 173
json_filename(e) ==
    "ecs_summary_" \o e["HUAWEI_ACCESS_KEY"] \o "_" \o e["HUAWEI_PROJECT_ID"] \o "_"
    \o e["HUAWEI_REGION"] \o "_" \o RUN_TIME \o ".json"

\* the labels of the first two except clauses exchanged
ExceptLabelSwapped(type) ==
    IF type = "ValueError" THEN "Runtime Error"
    ELSE IF type = "RuntimeError" THEN "Configuration Error"
    ELSE "Unexpected Error"

\* lines 179-184: the label each except clause prints
ExceptLabel(type) ==
    IF type = "ValueError" THEN "Configuration Error"
    ELSE IF type = "RuntimeError" THEN "Runtime Error"
    ELSE "Unexpected Error"

\* line 162, get_ecs_client (lines 18-34)
EcsGetClient ==
    /\ flow = "ecs" /\ pc = "start"
    /\ IF ~EnvironmentSet(env)
       THEN /\ pc' = "except"
            /\ exc' = Raise("ValueError", "One or more environment variables are not set.")
       ELSE IF ~RegionValueOf(env["HUAWEI_REGION"])
       THEN pc' = "except" /\ exc' = Raise("KeyError", "Unexpected region_id")
       ELSE pc' = "flavors" /\ exc' = exc
    /\ UNCHANGED <<flow, env, disk, calls, out, items, i, responses, cce_data,
                   cce_data_json, flavor_dict, servers, ecs_data, ip, ip_type>>

\* a get_flavor_dict that returns an empty table when the listing fails
EcsGetFlavorDictSwallows ==
    /\ flow = "ecs" /\ pc = "flavors"
    /\ \/ \E cause \in ApiErrors :
             /\ calls' = Append(calls, Call("list_flavors", "", cause))
             /\ flavor_dict' = <<>>
       \/ \E flavors \in Catalogs :
             /\ calls' = Append(calls, Call("list_flavors", "", ""))
             /\ flavor_dict' = DictById(flavors)
    /\ pc' = "servers"
    /\ UNCHANGED <<flow, env, disk, out, exc, items, i, responses, cce_data,
                   cce_data_json, servers, ecs_data, ip, ip_type>>

\* line 163, get_flavor_dict (lines 44-53)
EcsGetFlavorDict ==
    /\ flow = "ecs" /\ pc = "flavors"
    /\ \/ \E cause \in ApiErrors :
             /\ calls' = Append(calls, Call("list_flavors", "", cause))
             /\ pc' = "except"
             /\ exc' = Raise("RuntimeError", "Failed to fetch flavors: " \o cause)
             /\ UNCHANGED flavor_dict
       \/ \E flavors \in Catalogs :
             /\ calls' = Append(calls, Call("list_flavors", "", ""))
             /\ flavor_dict' = DictById(flavors)
             /\ pc' = "servers"
             /\ exc' = exc
    /\ UNCHANGED <<flow, env, disk, out, items, i, responses, cce_data,
                   cce_data_json, servers, ecs_data, ip, ip_type>>

\* line 164, get_ecs_servers up to the loop (lines 78-86)
EcsListServers ==
    /\ flow = "ecs" /\ pc = "servers"
    /\ \/ \E cause \in ApiErrors :
             /\ calls' = Append(calls, Call("list_servers_details", "", cause))
             /\ pc' = "except"
             /\ exc' = Raise("RuntimeError", "Failed to fetch ECS servers: " \o cause)
             /\ UNCHANGED <<servers, ecs_data, i>>
       \/ \E ss \in ServerLists :
             /\ calls' = Append(calls, Call("list_servers_details", "", ""))
             /\ servers' = ss
             /\ ecs_data' = <<>>
             /\ i' = 1
             /\ pc' = "loop"
             /\ exc' = exc
    /\ UNCHANGED <<flow, env, disk, out, items, responses, cce_data,
                   cce_data_json, flavor_dict, ip, ip_type>>

\* get_ecs_servers, one iteration of the loop over the servers (lines 89-140)
EcsProcessServer ==
    /\ flow = "ecs" /\ pc = "loop" /\ i <= Len(servers)
    /\ IF ecs_info_raises(servers[i])
       THEN /\ pc' = "except"
            /\ exc' = Raise("AttributeError", "'NoneType' object has no attribute 'id'")
            /\ UNCHANGED <<i, ecs_data>>
       ELSE /\ ecs_data' = Append(ecs_data,
                                  ecs_info(servers[i], flavor_dict, env["HUAWEI_REGION"]))
            /\ i' = i + 1
            /\ pc' = "loop"
            /\ exc' = exc
    /\ UNCHANGED <<flow, env, disk, calls, out, items, responses, cce_data,
                   cce_data_json, flavor_dict, servers, ip, ip_type>>

\* lines 166-176, save_data_to_json (lines 151-155): open(filename, 'w'), then
\* json.dump into the open file; any exception becomes a RuntimeError
EcsSave ==
    /\ flow = "ecs" /\ pc = "loop" /\ i > Len(servers)
    /\ \/ /\ pc' = "except"
          /\ exc' = Raise("RuntimeError",
                          "Failed to save data to JSON file: cannot open " \o json_filename(env))
          /\ UNCHANGED disk
       \/ /\ FirstBad(ecs_data) # 0
          /\ pc' = "except"
          /\ exc' = Raise("RuntimeError",
                          "Failed to save data to JSON file: Object of type object is not JSON serializable")
          /\ disk' = Partial(Dumped(ecs_data, FirstBad(ecs_data) - 1))
       \/ /\ FirstBad(ecs_data) = 0
          /\ \/ /\ pc' = "except"
                /\ exc' = Raise("RuntimeError", "Failed to save data to JSON file: write failed")
                /\ disk' = Partial(<<>>)
             \/ /\ pc' = "print"
                /\ exc' = exc
                /\ disk' = Written(Dumped(ecs_data, Len(ecs_data)))
    /\ UNCHANGED <<flow, env, calls, out, items, i, responses, cce_data,
                   cce_data_json, flavor_dict, servers, ecs_data, ip, ip_type>>

\* line 177
EcsPrintSuccess ==
    /\ flow = "ecs" /\ pc = "print"
    /\ out' = Append(out, Message("success", "Data saved", "Data saved to " \o json_filename(env)))
    /\ pc' = "done"
    /\ UNCHANGED <<flow, env, disk, calls, exc, items, i, responses, cce_data,
                   cce_data_json, flavor_dict, servers, ecs_data, ip, ip_type>>

\* lines 179-184
EcsExcept ==
    /\ flow = "ecs" /\ pc = "except"
    /\ out' = Append(out, Message("error", ExceptLabel(exc.type), exc.msg))
    /\ exc' = NoExc
    /\ pc' = "done"
    /\ UNCHANGED <<flow, env, disk, calls, items, i, responses, cce_data,
                   cce_data_json, flavor_dict, servers, ecs_data, ip, ip_type>>

Init ==
    /\ flow \in {"cce", "ecs"}
    /\ pc = "start"
    /\ env \in Environments
    /\ disk \in {NoFile, OldFile}
    /\ calls = <<>>
    /\ out = <<>>
    /\ exc = NoExc
    /\ items = <<>>
    /\ i = 1
    /\ responses = <<>>
    /\ cce_data = <<>>
    /\ cce_data_json = <<>>
    /\ flavor_dict = <<>>
    /\ servers = <<>>
    /\ ecs_data = <<>>
    /\ ip = <<>>
    /\ ip_type = ""

Next ==
    \/ CceCheckEnv
    \/ CceBuildClient
    \/ CceListClusters
    \/ CceShowCluster
    \/ CceDumps
    \/ CceWriteFile
    \/ CceLogSuccess
    \/ CceExcept
    \/ EcsGetClient
    \/ EcsGetFlavorDict
    \/ EcsListServers
    \/ EcsProcessServer
    \/ EcsSave
    \/ EcsPrintSuccess
    \/ EcsExcept

Spec == Init /\ [][Next]_vars

(***************************************************************************)
(* Classification runs: is_private_ip applied to one address string, the   *)
(* way line 111 of get_ecs_servers applies it to every addr.addr.          *)
(***************************************************************************)
Dotted(a, b, c, d) ==
    Format(a, 10) \o <<".">> \o Format(b, 10) \o <<".">> \o Format(c, 10) \o <<".">>
    \o Format(d, 10)

FirstOctets == {0, 8, 10, 11, 100, 127, 169, 172, 192, 198, 203, 224, 240, 255}
SecondOctets == {0, 15, 16, 18, 20, 31, 32, 51, 64, 168, 254, 255}
ThirdOctets == {0, 2, 100, 113, 255}
FourthOctets == {1, 255}

IPv4Samples ==
    {Dotted(a, b, c, d) : a \in FirstOctets, b \in SecondOctets, c \in ThirdOctets,
                          d \in FourthOctets}

IPv6Samples ==
    {<<":", ":", "1">>,
     <<":", ":">>,
     <<"f", "c", "0", "0", ":", ":", "1">>,
     <<"f", "d", "f", "f", ":", "f", "f", "f", "f", ":", ":", "1">>,
     <<"f", "e", "8", "0", ":", ":", "1">>,
     <<"f", "e", "b", "f", ":", ":", "1">>,
     <<"f", "e", "c", "0", ":", ":", "1">>,
     <<"f", "b", "f", "f", ":", ":", "1">>,
     <<"f", "e", "0", "0", ":", ":", "1">>,
     <<"2", "0", "0", "1", ":", "4", "8", "6", "0", ":", "4", "8", "6", "0", ":", ":", "8", "8", "8", "8">>,
     <<"2", "0", "0", "1", ":", "d", "b", "8", ":", ":", "1">>,
     <<"2", "6", "0", "6", ":", "4", "7", "0", "0", ":", ":", "1", "1", "1", "1">>,
     <<"F", "C", "0", "0", ":", ":", "1">>,
     <<"f", "f", "0", "2", ":", ":", "1">>,
     <<"1", "0", "0", ":", ":", "1">>,
     <<"f", "e", "8", "0", ":", ":", "1", "%", "e", "t", "h", "0">>,
     <<":", ":", "f", "f", "f", "f", ":", "1", "0", ".", "0", ".", "0", ".", "1">>,
     <<"1", ":", "2", ":", "3", ":", "4", ":", "5", ":", "6", ":", "7", ":", "8">>,
     <<"0", ":", "0", ":", "0", ":", "0", ":", "0", ":", "0", ":", "0", ":", "1">>}

InvalidSamples ==
    {<<"n", "o", "t", "-", "a", "n", "-", "i", "p">>,
     <<>>,
     <<"2", "5", "6", ".", "1", ".", "1", ".", "1">>,
     <<"1", ".", "2", ".", "3">>,
     <<"1", ".", "2", ".", "3", ".", "4", ".", "5">>,
     <<"1", "0", ".", "0", ".", "0", ".", "1", "/", "8">>,
     <<" ", "1", "0", ".", "0", ".", "0", ".", "1">>,
     <<"1", ":", ":", "2", ":", ":", "3">>,
     <<":", "1", ":", ":", "2">>,
     <<"1", ":", "2", ":", "3", ":", "4", ":", "5", ":", "6", ":", "7", ":", "8", ":", ":">>,
     <<"1", "2", "3", "4", "5", ":", ":", "1">>,
     <<"g", ":", ":", "1">>,
     <<"f", "e", "8", "0", ":", ":", "1", "%">>,
     <<"1", "0", ".", "0", ".", "0", ".", "-", "1">>,
     <<"1", ".", "2", ".", "3", ".", "4", "a">>,
     <<"1", "9", "2", ".", "1", "6", "8", ".", "1">>}

IpSamples == IPv4Samples \cup IPv6Samples \cup InvalidSamples

IpInit ==
    /\ flow = "ip"
    /\ pc = "classify"
    /\ ip \in IpSamples
    /\ ip_type = ""
    /\ env = [n \in EnvNames |-> None]
    /\ disk = NoFile
    /\ calls = <<>>
    /\ out = <<>>
    /\ exc = NoExc
    /\ items = <<>>
    /\ i = 1
    /\ responses = <<>>
    /\ cce_data = <<>>
    /\ cce_data_json = <<>>
    /\ flavor_dict = <<>>
    /\ servers = <<>>
    /\ ecs_data = <<>>

\* line 111: ip_type = 'private' if is_private_ip(addr.addr) else 'public'
Classify ==
    /\ flow = "ip" /\ pc = "classify"
    /\ ip_type' = IpType(ip)
    /\ pc' = "classified"
    /\ UNCHANGED <<flow, env, disk, calls, out, exc, items, i, responses, cce_data,
                   cce_data_json, flavor_dict, servers, ecs_data, ip>>

IpNext == Classify

IpSpec == IpInit /\ [][IpNext]_vars

(***************************************************************************)
(* Properties.                                                             *)
(***************************************************************************)
\* the run has not opened the output file for writing
Untouched == disk.state \in {"absent", "old"}

FailedCalls == {k \in DOMAIN calls : calls[k].error # ""}

Unset == {n \in EnvNames : env[n] = None}

\* a show_cluster reply was received and no record was appended for it
FlattenFailed == Len(responses) > Len(cce_data)

\* C1: in the cluster flow, if list_clusters, a show_cluster call or the
\* flattening of a detail raises, the output file is neither created nor
\* overwritten; the file is opened for writing only once every listed cluster
\* has been described and flattened, so it never holds a shorter array.
C1_NoPartialClusterFile ==
    flow = "cce" =>
        /\ (FailedCalls # {} \/ FlattenFailed) => Untouched
        /\ ~Untouched =>
              /\ Len(cce_data) = Len(items)
              /\ Len(calls) = Len(items) + 1
              /\ FailedCalls = {}
        /\ disk.state = "written" => Len(disk.data) = Len(items)

\* the second of two show_cluster calls failed and the run is over
C1_Witness ==
    /\ flow = "cce" /\ pc = "done"
    /\ Len(items) = 2 /\ Len(calls) = 3
    /\ calls[3].op = "show_cluster" /\ calls[3].error # ""
    /\ Len(cce_data) = 1
    /\ disk = OldFile

\* C3: in both flows, if one of the four variables is absent the run ends with
\* the ValueError reported, no network call is ever issued and no file is written.
C3_MissingVariableNoCalls ==
    (flow \in {"cce", "ecs"} /\ Unset # {}) =>
        /\ calls = <<>>
        /\ Untouched
        /\ pc \in {"start", "except", "done"}
        /\ pc = "except" =>
              exc = Raise("ValueError", "One or more environment variables are not set.")
        /\ pc = "done" =>
              /\ Len(out) = 1
              /\ out[1].kind = "error"
              /\ out[1].label = (IF flow = "cce" THEN "ValueError" ELSE "Configuration Error")
              /\ out[1].text = "One or more environment variables are not set."

\* a run with only HUAWEI_REGION absent is over
C3_Witness ==
    /\ pc = "done"
    /\ Unset = {"HUAWEI_REGION"}
    /\ \A n \in EnvNames \ Unset : bool(env[n])
    /\ Len(out) = 1 /\ out[1].kind = "error"

\* C4: in the instance flow, if list_flavors fails the run raises a RuntimeError
\* that carries the cause and aborts before instance processing: there is no
\* list_servers_details call, no instance record and no file.
C4_FlavorFailureAborts ==
    (flow = "ecs" /\ \E k \in FailedCalls : calls[k].op = "list_flavors") =>
        /\ Len(calls) = 1
        /\ servers = <<>> /\ ecs_data = <<>>
        /\ Untouched
        /\ pc \in {"except", "done"}
        /\ pc = "except" =>
              exc = Raise("RuntimeError", "Failed to fetch flavors: " \o calls[1].error)
        /\ pc = "done" =>
              out = <<Message("error", "Runtime Error",
                              "Failed to fetch flavors: " \o calls[1].error)>>

\* list_flavors failed and the run is over
C4_Witness ==
    /\ flow = "ecs" /\ pc = "done"
    /\ Len(calls) = 1 /\ calls[1].op = "list_flavors" /\ calls[1].error = "403 forbidden"

\* C5: on a successful cluster run with n listed clusters, show_cluster is called
\* once per cluster with its uid, in the order listed; the written array has n
\* records, the k-th being the flattening of the k-th detail; its Endpoints has
\* one {url, type} entry per endpoint of the detail, in the order of the reply.
C5_OneRecordPerCluster ==
    (flow = "cce" /\ disk.state = "written") =>
        /\ Len(calls) = Len(items) + 1
        /\ calls[1].op = "list_clusters"
        /\ \A k \in DOMAIN items :
              /\ calls[k + 1] = Call("show_cluster", items[k], "")
              /\ responses[k].metadata.uid = items[k]
        /\ Len(disk.data) = Len(items)
        /\ \A k \in DOMAIN disk.data :
              LET record == disk.data[k]
                  detail == responses[k]
              IN /\ record["Cluster ID"] = detail.metadata.uid
                 /\ record["Cluster Name"] = detail.metadata.name
                 /\ record["Status"] = detail.status.phase
                 /\ record["Region"] = env["HUAWEI_REGION"]
                 /\ record["Container Network"] = detail.spec.container_network.mode
                 /\ record["Labels"] = detail.metadata.labels
                 /\ Len(record["Endpoints"]) = Len(detail.status.endpoints)
                 /\ \A j \in DOMAIN detail.status.endpoints :
                       /\ DOMAIN record["Endpoints"][j] = {"url", "type"}
                       /\ record["Endpoints"][j].url = detail.status.endpoints[j].url
                       /\ record["Endpoints"][j].type = detail.status.endpoints[j].type

\* two clusters, listed c2 before c1, the first with its endpoints in the order
\* External, Internal, External; the file is written and the run is over
C5_Witness ==
    /\ flow = "cce" /\ pc = "done" /\ disk.state = "written"
    /\ items = <<"c2", "c1">>
    /\ responses[1].status.endpoints = <<E2, E1, E2>>
    /\ responses[2].status.endpoints = <<>>

\* the detail has no usable host-network mode
NoHostNetworkMode(detail) ==
    \/ detail.spec.host_network = NoneObject
    \/ ~hasattr(detail.spec.host_network, "mode")
    \/ detail.spec.host_network.mode = None

\* C6: for every cluster detail without a host-network mode (host_network None,
\* or present without a usable mode value) the record's 'Network Mode' is the
\* string "N/A"; the key is never omitted and its value is never null.
C6_NetworkModeSentinel ==
    flow = "cce" =>
        /\ \A k \in DOMAIN cce_data :
              /\ "Network Mode" \in DOMAIN cce_data[k]
              /\ NoHostNetworkMode(responses[k]) => cce_data[k]["Network Mode"] = "N/A"
        /\ disk.state = "written" =>
              \A k \in DOMAIN disk.data :
                  /\ "Network Mode" \in DOMAIN disk.data[k]
                  /\ disk.data[k]["Network Mode"] # JsonNull

\* C2: in the instance flow every error aborts the run and no output file is
\* produced: when the run ends by reporting an error, the ecs_summary file has
\* not been created and holds no partial content.
C2_NoFileOnError ==
    (flow = "ecs" /\ pc = "done" /\ out[1].kind = "error") => Untouched

\* the networks of a server in dict order, flattened to its address objects
RECURSIVE AddrObjects(_)
AddrObjects(addresses) ==
    IF addresses = <<>> THEN <<>>
    ELSE Head(addresses).addrs \o AddrObjects(Tail(addresses))

\* the loop over the servers stopped at server i with an exception
LoopRaised ==
    /\ flow = "ecs" /\ pc = "except"
    /\ Len(calls) = 2 /\ FailedCalls = {}
    /\ i <= Len(servers)

\* C8: the record's 'Flavor' is "Flavor details not available" exactly when the
\* instance's flavor id is not a key of the catalog; when it is a key the field
\* is "<name> | <vcpus> vCPUs | <ram/1024> GiB | <id>" of the entry with that id
\* (small, 2, 4096, f1 gives "small | 2 vCPUs | 4.0 GiB | f1"); a catalog miss
\* does not raise.
C8_FlavorJoin ==
    flow = "ecs" =>
        /\ \A k \in DOMAIN ecs_data :
              LET id == servers[k].flavor.id
                  text == ecs_data[k]["Server Summary"]["Flavor"]
              IN /\ (text = "Flavor details not available") <=> (id \notin DOMAIN flavor_dict)
                 /\ id \in DOMAIN flavor_dict =>
                       /\ flavor_dict[id].id = id
                       /\ flavor_dict[id] = F1 => text = "small | 2 vCPUs | 4.0 GiB | f1"
                       /\ flavor_dict[id] = F2 => text = "large | 4 vCPUs | 1.5 GiB | f2"
                       /\ flavor_dict[id] = F1b => text = "tiny | 1 vCPUs | 0.9765625 GiB | f1"
        /\ pc = "loop" => Len(ecs_data) = i - 1
        /\ LoopRaised => servers[i].image = NoneObject

\* a server with flavor f1 in a catalog that holds f1, followed by a server whose
\* flavor is not in the catalog; both have their records and the run is over
C8_Witness ==
    /\ flow = "ecs" /\ pc = "done" /\ disk.state = "written"
    /\ Len(ecs_data) = 2
    /\ DOMAIN flavor_dict = {"f1"} /\ flavor_dict["f1"] = F1
    /\ servers[1].flavor.id = "unknown"
    /\ servers[2].flavor.id = "f1"
    /\ ecs_data[2]["Server Summary"]["Flavor"] = "small | 2 vCPUs | 4.0 GiB | f1"

\* C9: an address string that is not a valid IP address is classified "public"
\* and does not raise: its interface entry is emitted with Type "public" and
\* the remaining addresses and instances are processed.
C9_InvalidAddressIsPublic ==
    flow = "ecs" =>
        /\ \A k \in DOMAIN ecs_data :
              LET objs == AddrObjects(servers[k].addresses)
                  entries == ecs_data[k]["Network Interfaces"]
              IN /\ Len(entries) = Len(objs)
                 /\ \A j \in DOMAIN objs :
                       /\ entries[j]["Address"] = objs[j].addr
                       /\ ip_address(objs[j].addr) = Invalid => entries[j]["Type"] = "public"
        /\ pc = "loop" => Len(ecs_data) = i - 1
        /\ LoopRaised => ~hasattr(servers[i].image, "id")
        /\ disk.state = "written" => Len(disk.data) = Len(servers)

\* the first server has "not-an-ip" before 10.0.0.5 on one network, the second
\* has "256.1.1.1" on its second network; both are recorded, the file is written
C9_Witness ==
    /\ flow = "ecs" /\ pc = "done" /\ disk.state = "written"
    /\ Len(servers) = 2
    /\ AddrObjects(servers[1].addresses) = <<ABad, A10>>
    /\ AddrObjects(servers[2].addresses) = <<A8, ABad2, A10>>
    /\ disk.data[1]["Network Interfaces"][1]["Type"] = "public"
    /\ disk.data[1]["Network Interfaces"][2]["Type"] = "private"
    /\ disk.data[2]["Network Interfaces"][2]["Type"] = "public"

\* the loop of get_ecs_servers ran to its end and every call succeeded
Saving == Len(calls) = 2 /\ FailedCalls = {} /\ Len(ecs_data) = Len(servers)

\* the run is at a statement of its script that has a next step
CanStep ==
    /\ pc \in (IF flow = "cce"
               THEN {"start", "build", "list", "loop", "write", "log", "except"}
               ELSE {"start", "flavors", "servers", "loop", "print", "except"})
    /\ pc = "loop" => i \in 1..(Len(IF flow = "cce" THEN items ELSE servers) + 1)

Parsed == ip_address(ip)

\* 10.0.0.0/8, 172.16.0.0/12, 192.168.0.0/16; fc00::/7, ::1, fe80::/10
InNamedRanges(a) ==
    \/ /\ a.version = 4
       /\ \/ a.words[1] = 10
          \/ a.words[1] = 172 /\ a.words[2] \in 16..31
          \/ a.words[1] = 192 /\ a.words[2] = 168
    \/ /\ a.version = 6
       /\ \/ a.words[1] \in 64512..65023
          \/ a.words[1] \in 65152..65215
          \/ a.words = <<0, 0, 0, 0, 0, 0, 0, 1>>

\* the IPv4 loopback and link-local ranges, 127.0.0.0/8 and 169.254.0.0/16
InIPv4LoopbackOrLinkLocal(a) ==
    /\ a.version = 4
    /\ \/ a.words[1] = 127
       \/ a.words[1] = 169 /\ a.words[2] = 254

\* 0.0.0.0/8, 192.0.2.0/24, 198.18.0.0/15, 198.51.100.0/24, 203.0.113.0/24,
\* 240.0.0.0/4; ::, 100::/64, 2001:db8::/32
InOtherReservedRanges(a) ==
    \/ /\ a.version = 4
       /\ \/ a.words[1] = 0
          \/ a.words[1] = 192 /\ a.words[2] = 0 /\ a.words[3] = 2
          \/ a.words[1] = 198 /\ a.words[2] \in 18..19
          \/ a.words[1] = 198 /\ a.words[2] = 51 /\ a.words[3] = 100
          \/ a.words[1] = 203 /\ a.words[2] = 0 /\ a.words[3] = 113
          \/ a.words[1] >= 240
    \/ /\ a.version = 6
       /\ \/ a.words = <<0, 0, 0, 0, 0, 0, 0, 0>>
          \/ a.words[1] = 256 /\ \A k \in 2..4 : a.words[k] = 0
          \/ a.words[1] = 8193 /\ a.words[2] = 3512

\* an address outside every special-purpose range: outside the ranges above and
\* outside 192.0.0.0/24; 64:ff9b:1::/48, ::ffff:0:0/96 and the rest of ::/16,
\* 2001::/23, 2002::/16, 3fff::/20, 5f00::/16
Ordinary(a) ==
    /\ a.version \in {4, 6}
    /\ ~InNamedRanges(a) /\ ~InIPv4LoopbackOrLinkLocal(a) /\ ~InOtherReservedRanges(a)
    /\ a.version = 4 => ~(a.words[1] = 192 /\ a.words[2] = 0 /\ a.words[3] = 0)
    /\ a.version = 6 =>
          /\ a.words[1] \notin {0, 100, 256, 8194, 24320}
          /\ a.words[1] \notin 16368..16383
          /\ ~(a.words[1] = 8193 /\ a.words[2] < 512)

\* C7 as stated: every address in 10.0.0.0/8, 172.16.0.0/12, 192.168.0.0/16,
\* fc00::/7 or the loopback / link-local ranges is classified "private" and every
\* other syntactically valid address is classified "public".
C7_OnlyNamedRangesPrivate ==
    (flow = "ip" /\ pc = "classified" /\ Parsed # Invalid) =>
        (ip_type = "private" <=> (InNamedRanges(Parsed) \/ InIPv4LoopbackOrLinkLocal(Parsed)))

\* C7, amended: every address in the named ranges is classified "private"; so
\* is every address in 127.0.0.0/8, 169.254.0.0/16 and the other reserved ranges
\* listed above; every valid address outside all special-purpose ranges is
\* classified "public".
C7_Classification ==
    (flow = "ip" /\ pc = "classified") =>
        /\ ip_type \in {"private", "public"}
        /\ Parsed # Invalid =>
              /\ InNamedRanges(Parsed) => ip_type = "private"
              /\ InIPv4LoopbackOrLinkLocal(Parsed) => ip_type = "private"
              /\ InOtherReservedRanges(Parsed) => ip_type = "private"
              /\ Ordinary(Parsed) => ip_type = "public"

\* 172.31.255.255, the last address of 172.16.0.0/12, has been classified
C7_Witness ==
    /\ flow = "ip" /\ pc = "classified"
    /\ ip = Dotted(172, 31, 255, 255)
    /\ ip_type = "private"

====
